---------------------------- MODULE Spec2Model ----------------------------
(***************************************************************************)
(* Job-application intake: the submission pipeline (POST                   *)
(* /api/applications), the listing (GET /api/applications), the resend of  *)
(* a webhook (POST /api/applications/resend-webhook/[id]), the webhook     *)
(* notifier and its retry helper, the object-storage upload with the       *)
(* optional resume parser, and the application store.                      *)
(*                                                                         *)
(* JavaScript values are modelled as string tokens ("undefined", "null",   *)
(* "", "[]", ...) so that truthiness, `||` defaults and `if (x)` tests are *)
(* computed the way the code computes them.  Objects are records of        *)
(* tokens.  An exception is modelled explicitly: every operator that       *)
(* models a function that can throw returns a record with a `threw` flag.  *)
(***************************************************************************)
EXTENDS Integers, Sequences, FiniteSets, TLC

VARIABLES
    now,        \* the wall clock read by new Date() / Date.now()
    calls,      \* log of sendWebhookNotification calls (inputs, payload, result)
    rw,         \* the one retryWebhook invocation in flight
    store,      \* the Application collection, in insertion order
    sub,        \* the one submission request (POST /api/applications) in flight
    rs,         \* the resend-webhook requests in flight, one per client
    hist,       \* per record, the notification attempt that completed last
    lst,        \* the listing request (GET /api/applications) in flight
    pyCall          \* the one sendUrlToPythonService call in flight

vars == <<now, calls, rw, store, sub, rs, hist, lst, pyCall>>

---------------------------------------------------------------------------
(* Bounds of the model *)

MaxClock == 1
MaxCalls == 2
MaxRetries == 3
MaxRecords == 1
MaxListed == 2

---------------------------------------------------------------------------
(* JavaScript values *)

Undefined == "undefined"
Null == "null"

\* ToBoolean: undefined, null, "", 0 and false are falsy; every object and
\* array (also the empty array "[]") and every non-empty string is truthy.
Truthy(v) == v \notin {"undefined", "null", "", "0", "false"}

\* a || b
Or(a, b) == IF Truthy(a) THEN a ELSE b

\* The fields the code reads from a parsed resume object.  jt is the JSON
\* type of the value itself: property reads on null throw, property reads on
\* a number or string give undefined.
ParsedValue(jt, fullName, email, github, linkedin, employment, skills, education) ==
    [jt |-> jt, fullName |-> fullName, email |-> email, github |-> github,
     linkedin |-> linkedin, employment |-> employment,
     technicalSkills |-> skills, softSkills |-> skills, education |-> education]

NoFields(jt) ==
    ParsedValue(jt, Undefined, Undefined, Undefined, Undefined, Undefined,
                Undefined, Undefined)

FullResume ==
    ParsedValue("object", "Jo Doe", "jo@x.io", "gh/jo", "in/jo", "[job]",
                "[ts]", "[bsc]")
\* employment is present but null (an optional list serialised as null)
NullEmploymentResume ==
    ParsedValue("object", "Jo Doe", Undefined, Undefined, "in/jo", Null,
                "[ts]", Undefined)
\* employment is the empty list
EmptyEmploymentResume ==
    ParsedValue("object", Undefined, "jo@x.io", "gh/jo", Undefined, "[]",
                Undefined, "[bsc]")
\* an object with none of the optional fields
BareResume == NoFields("object")

\* What JSON.parse can yield besides an object, and the text it rejects.
JsonNull == NoFields("null")
JsonInvalid == NoFields("invalid")


\* pythonResponse.parsed_data as the parser returned it: absent, an object,
\* or JSON text.  pv is the object, or what the text parses to.
Raw(kind, pv) == [kind |-> kind, pv |-> pv]
NoRaw == Raw("absent", NoFields("undefined"))

\* JSON.parse(text): a SyntaxError on invalid text, the parsed value otherwise.
JSONParse(raw) ==
    IF raw.pv.jt = "invalid"
    THEN [threw |-> TRUE, value |-> NoFields("undefined")]
    ELSE [threw |-> FALSE, value |-> raw.pv]

\* The `data` argument of the notifier: the fields it reads, the cvUrl the
\* callers attach and the rawData key of the raw-payload fallback.
MkData(pv, cvUrl, rawData) ==
    [jt |-> pv.jt, fullName |-> pv.fullName, email |-> pv.email,
     github |-> pv.github, linkedin |-> pv.linkedin,
     employment |-> pv.employment, technicalSkills |-> pv.technicalSkills,
     softSkills |-> pv.softSkills, education |-> pv.education,
     cvUrl |-> cvUrl, rawData |-> rawData]

\* { ...parsedData, cvUrl }: spreading a number or a string copies nothing.
SpreadWithUrl(pv, cvUrl) ==
    MkData(IF pv.jt = "object" THEN pv ELSE NoFields("object"), cvUrl, NoRaw)

---------------------------------------------------------------------------
(* Webhook notifier *)

\* new Date().toISOString()
ToISOString(t) == "T" \o ToString(t)

HttpOutcomes == {"2xx", "non2xx", "timeout", "network"}

\* axios.post to the webhook endpoint: resolves on 2xx, rejects otherwise.
\* error.response (and so error.response.data) exists only when the server
\* answered.
AxiosPost(http) ==
    CASE http = "2xx" ->
           [threw |-> FALSE, status |-> "200", data |-> "ok",
            message |-> Undefined]
      [] http = "non2xx" ->
           [threw |-> TRUE, status |-> "500", data |-> "server said no",
            message |-> "Request failed with status code 500"]
      [] http = "timeout" ->
           [threw |-> TRUE, status |-> Undefined, data |-> Undefined,
            message |-> "timeout of 10000ms exceeded"]
      [] OTHER ->
           [threw |-> TRUE, status |-> Undefined, data |-> Undefined,
            message |-> "Network Error"]

\* Mutant: the public link carries the time of the call as a cache buster.
PayloadBase_stampedLink(data, email, environment, t) ==
    [cv_data |->
        [personal_info |->
            [name |-> Or(data.fullName, ""),
             email |-> Or(data.email, email),
             github |-> Or(data.github, ""),
             linkedin |-> Or(data.linkedin, "")],
         education |-> Or(data.education, "[]"),
         qualifications |-> Or(data.technicalSkills, "[]"),
         projects |-> "[]",
         cv_public_link |-> Or(data.cvUrl, "") \o "?t=" \o ToString(t)],
     metadata |->
        [applicant_name |-> Or(data.fullName, "Unknown Candidate"),
         email |-> email,
         status |-> environment,
         cv_processed |-> TRUE,
         processed_timestamp |-> ToISOString(t)]]

\* Mutant: absent personal fields are copied as they are, with no default.
PayloadBase_noDefaults(data, email, environment, t) ==
    [cv_data |->
        [personal_info |->
            [name |-> data.fullName,
             email |-> Or(data.email, email),
             github |-> data.github,
             linkedin |-> data.linkedin],
         education |-> Or(data.education, "[]"),
         qualifications |-> Or(data.technicalSkills, "[]"),
         projects |-> "[]",
         cv_public_link |-> Or(data.cvUrl, "")],
     metadata |->
        [applicant_name |-> Or(data.fullName, "Unknown Candidate"),
         email |-> email,
         status |-> environment,
         cv_processed |-> TRUE,
         processed_timestamp |-> ToISOString(t)]]

\* The payload object literal and the conditional work_experience key.
PayloadBase(data, email, environment, t) ==
    [cv_data |->
        [personal_info |->
            [name |-> Or(data.fullName, ""),
             email |-> Or(data.email, email),
             github |-> Or(data.github, ""),
             linkedin |-> Or(data.linkedin, "")],
         education |-> Or(data.education, "[]"),
         qualifications |-> Or(data.technicalSkills, "[]"),
         projects |-> "[]",
         cv_public_link |-> Or(data.cvUrl, "")],
     metadata |->
        [applicant_name |-> Or(data.fullName, "Unknown Candidate"),
         email |-> email,
         status |-> environment,
         cv_processed |-> TRUE,
         processed_timestamp |-> ToISOString(t)]]

\* Mutant: the key is always written.
AddEmployment_always(payload, data) ==
    [payload EXCEPT !.cv_data =
        [work_experience |-> data.employment] @@ payload.cv_data]

\* if (data.employment) payload.cv_data.work_experience = data.employment
AddEmployment(payload, data) ==
    IF Truthy(data.employment)
    THEN [payload EXCEPT !.cv_data =
              [work_experience |-> data.employment] @@ payload.cv_data]
    ELSE payload

BuildPayload(data, email, environment, t) ==
    AddEmployment(PayloadBase(data, email, environment, t), data)

NoPayload == [none |-> TRUE]

\* The result object of the notifier.  nil marks the JavaScript null that
\* stands where no result object exists (webhookResult = null).
NotifyResult(success, status, data, error, details) ==
    [nil |-> FALSE, success |-> success, status |-> status, data |-> data,
     error |-> error, details |-> details]

NullResult ==
    [nil |-> TRUE, success |-> FALSE, status |-> Undefined, data |-> Undefined,
     error |-> Undefined, details |-> Undefined]

\* The try block: reading data.fullName of null/undefined throws a TypeError
\* before any payload exists; otherwise the payload is posted.
NotifyTry(data, email, environment, t, http) ==
    IF data.jt \in {"null", "undefined"}
    THEN [threw |-> TRUE, posted |-> FALSE, payload |-> NoPayload,
          status |-> Undefined, data |-> Undefined,
          message |-> "Cannot read properties of null", details |-> Undefined]
    ELSE LET r == AxiosPost(http) IN
         [threw |-> r.threw, posted |-> TRUE,
          payload |-> BuildPayload(data, email, environment, t),
          status |-> r.status, data |-> r.data,
          message |-> r.message, details |-> r.data]

\* Mutant: the catch block rethrows instead of returning {success: false}.
sendWebhookNotification_rethrow(data, email, environment, t, http) ==
    LET b == NotifyTry(data, email, environment, t, http) IN
    [threw |-> b.threw, posted |-> b.posted, payload |-> b.payload,
     result |-> IF b.threw
                THEN NotifyResult(FALSE, Undefined, Undefined, Undefined, Undefined)
                ELSE NotifyResult(TRUE, b.status, b.data, Undefined, Undefined)]

sendWebhookNotification(data, email, environment, t, http) ==
    LET b == NotifyTry(data, email, environment, t, http) IN
    [threw |-> FALSE, posted |-> b.posted, payload |-> b.payload,
     result |-> IF b.threw
                THEN NotifyResult(FALSE, Undefined, Undefined, b.message, b.details)
                ELSE NotifyResult(TRUE, b.status, b.data, Undefined, Undefined)]


---------------------------------------------------------------------------
(* Calls of the notifier, one at a time, with the clock running *)

Emails == {"a@b.com"}
Environments == {"testing", "prod"}

\* Data values the notifier is called with: what the submission pipeline
\* passes on the structured path, on the raw-payload fallback, and null.
NotifyData ==
    {MkData(pv, "https://bucket/cv.pdf", NoRaw) :
        pv \in {FullResume, NullEmploymentResume, EmptyEmploymentResume}}
    \cup {MkData(NoFields("object"), Undefined, Raw("text", JsonInvalid)),
          MkData(JsonNull, Undefined, NoRaw)}

Tick ==
    /\ now < MaxClock
    /\ now' = now + 1
    /\ UNCHANGED <<calls, rw, store, sub, rs, hist, lst, pyCall>>

NotifyCall(data, email, environment, http) ==
    /\ Len(calls) < MaxCalls
    /\ LET r == sendWebhookNotification(data, email, environment, now, http) IN
       calls' = Append(calls,
                  [data |-> data, email |-> email, environment |-> environment,
                   at |-> now, http |-> http, threw |-> r.threw,
                   posted |-> r.posted, payload |-> r.payload,
                   result |-> r.result])
    /\ UNCHANGED <<now, rw, store, sub, rs, hist, lst, pyCall>>

---------------------------------------------------------------------------
(* retryWebhook *)

RetryIdle ==
    [pc |-> "idle", data |-> MkData(BareResume, Undefined, NoRaw),
     email |-> "a@b.com", environment |-> "testing", retries |-> 0,
     attempt |-> 0, lastError |-> Undefined, delays |-> 0,
     outcomes |-> <<>>, result |-> NullResult]

\* `Failed after ${retries} attempts. Last error: ${lastError}`
AggregatedError(retries, lastError) ==
    "Failed after " \o ToString(retries) \o " attempts. Last error: " \o lastError

\* The call: attempt = 0, lastError undefined, then the loop test.
RetryStart(data, email, retries, environment) ==
    /\ rw.pc = "idle"
    /\ rw' = [RetryIdle EXCEPT !.pc = "loop", !.data = data, !.email = email,
                               !.retries = retries, !.environment = environment]
    /\ UNCHANGED <<now, calls, store, sub, rs, hist, lst, pyCall>>

\* Mutant: a successful result is kept but the loop goes on.
RetryAttempt_noStop(http) ==
    /\ rw.pc = "loop"
    /\ rw.attempt < rw.retries
    /\ LET r == sendWebhookNotification(rw.data, rw.email, rw.environment, now, http)
       IN rw' = [rw EXCEPT !.attempt = @ + 1, !.outcomes = Append(@, http),
                           !.pc = "delay",
                           !.result = IF r.result.success THEN r.result ELSE @,
                           !.lastError = r.result.error]
    /\ UNCHANGED <<now, calls, store, sub, rs, hist, lst, pyCall>>

\* Mutant: the loop test admits one pass more (attempt <= retries).
RetryAttempt_inclusive(http) ==
    /\ rw.pc = "loop"
    /\ rw.attempt <= rw.retries
    /\ LET r == sendWebhookNotification(rw.data, rw.email, rw.environment, now, http)
           tried == [rw EXCEPT !.attempt = @ + 1,
                               !.outcomes = Append(@, http)]
       IN rw' = IF r.result.success
                THEN [tried EXCEPT !.pc = "done", !.result = r.result]
                ELSE [tried EXCEPT !.pc = "delay", !.lastError = r.result.error]
    /\ UNCHANGED <<now, calls, store, sub, rs, hist, lst, pyCall>>

\* One pass through the try block, entered when attempt < retries.
RetryAttempt(http) ==
    /\ rw.pc = "loop"
    /\ rw.attempt < rw.retries
    /\ LET r == sendWebhookNotification(rw.data, rw.email, rw.environment, now, http)
           tried == [rw EXCEPT !.attempt = @ + 1,
                               !.outcomes = Append(@, http)]
       IN rw' = IF r.threw
                THEN [tried EXCEPT !.pc = "delay", !.lastError = "thrown"]
                ELSE IF r.result.success
                THEN [tried EXCEPT !.pc = "done", !.result = r.result]
                ELSE [tried EXCEPT !.pc = "delay", !.lastError = r.result.error]
    /\ UNCHANGED <<now, calls, store, sub, rs, hist, lst, pyCall>>

\* await new Promise((resolve) => setTimeout(resolve, delay))
RetryDelay ==
    /\ rw.pc = "delay"
    /\ rw' = [rw EXCEPT !.pc = "loop", !.delays = @ + 1]
    /\ UNCHANGED <<now, calls, store, sub, rs, hist, lst, pyCall>>

\* The loop test fails: the aggregated failure is returned.
RetryExhausted ==
    /\ rw.pc = "loop"
    /\ ~(rw.attempt < rw.retries)
    /\ rw' = [rw EXCEPT !.pc = "done",
                        !.result = NotifyResult(FALSE, Undefined, Undefined,
                                      AggregatedError(rw.retries, rw.lastError),
                                      Undefined)]
    /\ UNCHANGED <<now, calls, store, sub, rs, hist, lst, pyCall>>


---------------------------------------------------------------------------
(* Object storage upload and the resume parser gateway *)

\* String.prototype.includes
Includes(s, part) ==
    \E i \in 1..(Len(s) - Len(part) + 1) : SubSeq(s, i, i + Len(part) - 1) = part

\* The value of pythonResponse: null/undefined (nil), or the parser's
\* response body with its parsed_data.
PyResponse(raw) == [nil |-> FALSE, parsed_data |-> raw]
NoPyResponse == [nil |-> TRUE, parsed_data |-> NoRaw]

\* Truthiness of parsed_data: absent is falsy, an object and non-empty text
\* are truthy.
RawTruthy(raw) == raw.kind \in {"object", "text"}

\* What the parse request can return, besides failing.
ParserBodies ==
    {PyResponse(NoRaw),
     PyResponse(Raw("object", FullResume)),
     PyResponse(Raw("text", FullResume)),
     PyResponse(Raw("text", JsonInvalid)),
     PyResponse(Raw("text", JsonNull))}

ProbeOutcomes == {"up", "down"}
\* The parse request: rejected (timeout, non-2xx, reset), or answered.
ParseFailed == [ok |-> FALSE, body |-> NoPyResponse]
ParseOutcomes == {ParseFailed} \cup {[ok |-> TRUE, body |-> b] : b \in ParserBodies}

\* axios.get(/health) inside try/catch: true, or false on any failure.
isPythonServiceAvailable(probe) == probe = "up"

\* Mutant: the parse request is issued without looking at the probe.
sendUrlToPythonService_skipProbe(fileUrl, probe, parse) ==
    [threw |-> FALSE, probes |-> 1, parses |-> 1,
     value |-> IF parse.ok THEN parse.body ELSE NoPyResponse]

\* Health probe, then at most one parse request; every failure becomes null.
sendUrlToPythonService(fileUrl, probe, parse) ==
    IF ~isPythonServiceAvailable(probe)
    THEN [threw |-> FALSE, probes |-> 1, parses |-> 0, value |-> NoPyResponse]
    ELSE [threw |-> FALSE, probes |-> 1, parses |-> 1,
          value |-> IF parse.ok THEN parse.body ELSE NoPyResponse]

\* s3Client.send: resolves, or rejects with the storage client's message.
S3Outcomes == {"ok", "denied", "python-named"}

S3ErrorMessage(s3) ==
    IF s3 = "denied" THEN "AccessDenied: Access Denied"
    ELSE "NoSuchKey: applications/1-Python service.pdf"

\* `https://${bucket}.s3.${region}.amazonaws.com/applications/${Date.now()}-${fileName}`
FileUrl(t, fileName) ==
    "https://bucket.s3.region.amazonaws.com/applications/" \o ToString(t)
        \o "-" \o fileName

\* One call of sendUrlToPythonService, followed request by request.  pc is
\* the await the call is suspended on; probes and parses count the requests
\* issued so far; probe and parse keep what the parser service answered;
\* posted is the body of the parse request; n counts the calls started.
PyIdle ==
    [pc |-> "idle", fileUrl |-> Undefined, probes |-> 0, parses |-> 0,
     probe |-> "none", parse |-> ParseFailed, posted |-> Undefined,
     threw |-> FALSE, value |-> NoPyResponse, n |-> 0]

PyUrls == {FileUrl(t, name) : t \in 0..MaxClock, name \in {"cv.pdf", "resume.pdf"}}

\* The call is made: isPythonServiceAvailable issues GET /health.
PyStart(fileUrl) ==
    /\ pyCall.pc = "idle"
    /\ pyCall.n < MaxCalls
    /\ pyCall' = [PyIdle EXCEPT !.pc = "probe", !.fileUrl = fileUrl, !.probes = 1,
                            !.n = pyCall.n + 1]
    /\ UNCHANGED <<now, calls, rw, store, sub, rs, hist, lst>>

\* Mutant: the parse request is issued whatever the probe answered.
PyProbe_ignoresAnswer(probe) ==
    /\ pyCall.pc = "probe"
    /\ pyCall' = [pyCall EXCEPT !.pc = "parse", !.probe = probe,
                        !.parses = pyCall.parses + 1, !.posted = pyCall.fileUrl]
    /\ UNCHANGED <<now, calls, rw, store, sub, rs, hist, lst>>

\* The probe settles: unavailable returns null at once, available issues
\* POST /parse-resume/ with {url: fileUrl}.
PyProbe(probe) ==
    /\ pyCall.pc = "probe"
    /\ IF ~isPythonServiceAvailable(probe)
       THEN pyCall' = [pyCall EXCEPT !.pc = "done", !.probe = probe,
                             !.value = NoPyResponse]
       ELSE pyCall' = [pyCall EXCEPT !.pc = "parse", !.probe = probe,
                             !.parses = pyCall.parses + 1, !.posted = pyCall.fileUrl]
    /\ UNCHANGED <<now, calls, rw, store, sub, rs, hist, lst>>

\* The parse request settles: response.data, or null from the catch.
PyParse(parse) ==
    /\ pyCall.pc = "parse"
    /\ pyCall' = [pyCall EXCEPT !.pc = "done", !.parse = parse,
                        !.value = IF parse.ok THEN parse.body ELSE NoPyResponse]
    /\ UNCHANGED <<now, calls, rw, store, sub, rs, hist, lst>>

\* The caller has the value; the next call starts from scratch.
PyDone ==
    /\ pyCall.pc = "done"
    /\ pyCall' = [PyIdle EXCEPT !.n = pyCall.n]
    /\ UNCHANGED <<now, calls, rw, store, sub, rs, hist, lst>>

uploadFile(fileName, sendToPython, t, s3, probe, parse) ==
    IF s3 # "ok"
    THEN [threw |-> TRUE,
          message |-> "Failed to upload file: " \o S3ErrorMessage(s3),
          fileUrl |-> Undefined, pythonResponse |-> NoPyResponse,
          probes |-> 0, parses |-> 0]
    ELSE LET url == FileUrl(t, fileName)
             py == sendUrlToPythonService(url, probe, parse)
         IN IF sendToPython
            THEN [threw |-> FALSE, message |-> Undefined, fileUrl |-> url,
                  pythonResponse |-> IF py.threw THEN NoPyResponse ELSE py.value,
                  probes |-> py.probes, parses |-> py.parses]
            ELSE [threw |-> FALSE, message |-> Undefined, fileUrl |-> url,
                  pythonResponse |-> NoPyResponse, probes |-> 0, parses |-> 0]


---------------------------------------------------------------------------
(* The Application schema *)

\* trim: true
Trim(v) == IF v = " " THEN "" ELSE v
\* lowercase: true
Lowercase(v) == IF v = "A@B.com" THEN "a@b.com" ELSE v
\* match: /^\S+@\S+\.\S+$/
EmailMatches(v) == v \in {"a@b.com", "A@B.com", "jo@x.io"}

Statuses == {"pending", "reviewed", "contacted", "rejected", "hired"}

\* parsedResume as the handler builds it; nil is the JavaScript null.
ParsedResume(pv, email, raw) ==
    [nil |-> FALSE, fullName |-> pv.fullName, email |-> email,
     github |-> pv.github, linkedin |-> pv.linkedin,
     employment |-> pv.employment, technicalSkills |-> pv.technicalSkills,
     softSkills |-> pv.softSkills, education |-> pv.education,
     rawData |-> raw]

NoParsedResume ==
    [ParsedResume(NoFields("undefined"), Undefined, NoRaw) EXCEPT !.nil = TRUE]

\* { rawData: parsed_data }
RawOnlyResume(raw) == ParsedResume(NoFields("undefined"), Undefined, raw)

\* Mutant: webhookSent records that a result exists, not that it succeeded.
NewApplication_sentIfResult(id, form, fileUrl, py, parsedResume, webhookResult, t) ==
    [id |-> id,
     name |-> Trim(form.name), email |-> Lowercase(Trim(form.email)),
     phone |-> Trim(form.phone),
     cv |-> [fileName |-> form.cv.name, fileType |-> form.cv.type,
             fileSize |-> form.cv.size, url |-> fileUrl, pythonAnalysis |-> py],
     parsedResume |-> parsedResume,
     status |-> "pending",
     webhookSent |-> ~webhookResult.nil,
     webhookResponse |-> webhookResult,
     notes |-> Undefined,
     createdAt |-> t, updatedAt |-> t]

\* Mutant: a submitted record starts out as reviewed.
NewApplication_reviewed(id, form, fileUrl, py, parsedResume, webhookResult, t) ==
    [id |-> id,
     name |-> Trim(form.name), email |-> Lowercase(Trim(form.email)),
     phone |-> Trim(form.phone),
     cv |-> [fileName |-> form.cv.name, fileType |-> form.cv.type,
             fileSize |-> form.cv.size, url |-> fileUrl, pythonAnalysis |-> py],
     parsedResume |-> parsedResume,
     status |-> "reviewed",
     webhookSent |-> webhookResult.success,
     webhookResponse |-> webhookResult,
     notes |-> Undefined,
     createdAt |-> t, updatedAt |-> t]

\* new Application({...}): setters (trim, lowercase) and defaults (status,
\* createdAt, updatedAt) are applied on construction.
NewApplication(id, form, fileUrl, py, parsedResume, webhookResult, t) ==
    [id |-> id,
     name |-> Trim(form.name), email |-> Lowercase(Trim(form.email)),
     phone |-> Trim(form.phone),
     cv |-> [fileName |-> form.cv.name, fileType |-> form.cv.type,
             fileSize |-> form.cv.size, url |-> fileUrl, pythonAnalysis |-> py],
     parsedResume |-> parsedResume,
     status |-> "pending",
     webhookSent |-> webhookResult.success,
     webhookResponse |-> webhookResult,
     notes |-> Undefined,
     createdAt |-> t, updatedAt |-> t]

\* Schema validation run by save(): required strings must be non-empty, the
\* email must match, the status must be one of the enum.
Validates(doc) ==
    /\ doc.name # "" /\ doc.phone # ""
    /\ doc.email # "" /\ EmailMatches(doc.email)
    /\ doc.cv.fileName # "" /\ doc.cv.fileType # ""
    /\ Truthy(doc.cv.url)
    /\ doc.status \in Statuses

\* pre("save"): updatedAt = new Date()
PreSave(doc, t) == [doc EXCEPT !.updatedAt = t]

DbOutcomes == {"ok", "down"}

\* application.save(): rejects on a validation error or a store failure,
\* otherwise the document is written.
Save(doc, t, db) ==
    IF ~Validates(doc) \/ db # "ok"
    THEN [threw |-> TRUE, doc |-> doc]
    ELSE [threw |-> FALSE, doc |-> PreSave(doc, t)]

---------------------------------------------------------------------------
(* POST /api/applications *)

\* formData.get(...): null when the field is missing.  A cv part is a File
\* object, which is truthy whatever its size and name.
NoFile == [nil |-> TRUE, name |-> "", type |-> "", size |-> 0]
PdfFile == [nil |-> FALSE, name |-> "cv.pdf", type |-> "application/pdf", size |-> 2097152]
EmptyFile == [nil |-> FALSE, name |-> "cv.pdf", type |-> "application/pdf", size |-> 0]
BlankFile == [nil |-> FALSE, name |-> "", type |-> "application/octet-stream", size |-> 0]

FormNames == {Null, "", "Ann", " "}
FormEmails == {Null, "", "a@b.com", "A@B.com", "not-an-email"}
FormPhones == {Null, "", "1234567890"}
FormFiles == {NoFile, PdfFile, EmptyFile, BlankFile}

StandardForm ==
    [name |-> "Ann", email |-> "a@b.com", phone |-> "1234567890", cv |-> PdfFile]

\* The submissions tried: the standard form with any one field replaced, and
\* the form with nothing filled in.
Forms ==
    {[StandardForm EXCEPT !.name = v] : v \in FormNames}
    \cup {[StandardForm EXCEPT !.email = v] : v \in FormEmails}
    \cup {[StandardForm EXCEPT !.phone = v] : v \in FormPhones}
    \cup {[StandardForm EXCEPT !.cv = v] : v \in FormFiles}
    \cup {[name |-> Null, email |-> Null, phone |-> Null, cv |-> NoFile]}

\* Mutant: the phone test is forgotten.
MissingRequired_noPhone(form) ==
    \/ ~Truthy(form.name) \/ ~Truthy(form.email) \/ form.cv.nil

\* !name || !email || !phone || !cvFile
MissingRequired(form) ==
    \/ ~Truthy(form.name) \/ ~Truthy(form.email) \/ ~Truthy(form.phone)
    \/ form.cv.nil

NoResponse == [status |-> 0, webhookSent |-> FALSE, applicationId |-> Undefined]

\* The outbound calls of a request are logged in its wire field, in the
\* order in which they start and return.

\* Mutant: the calls of cs are all started before any of them is awaited.
AwaitEach_together(cs) ==
    [i \in 1..(2 * Len(cs)) |->
        [call |-> cs[IF i <= Len(cs) THEN i ELSE i - Len(cs)],
         ev |-> IF i <= Len(cs) THEN "start" ELSE "end"]]

\* `await` of each call of cs in turn: a call starts when the one before it
\* has returned.
AwaitEach(cs) ==
    [i \in 1..(2 * Len(cs)) |->
        [call |-> cs[(i + 1) \div 2],
         ev |-> IF i % 2 = 1 THEN "start" ELSE "end"]]

\* The requests uploadFile has issued: the S3 put, then the parser gateway's
\* probe and parse request.
UploadCalls(u) ==
    <<"upload">> \o (IF u.probes > 0 THEN <<"probe">> ELSE <<>>)
                 \o (IF u.parses > 0 THEN <<"parse">> ELSE <<>>)

SubIdle ==
    [pc |-> "idle",
     form |-> [name |-> Null, email |-> Null, phone |-> Null, cv |-> NoFile],
     fileUrl |-> Undefined, pythonResponse |-> NoPyResponse,
     parsedResume |-> NoParsedResume, webhookResult |-> NullResult,
     webhookData |-> MkData(NoFields("undefined"), Undefined, NoRaw),
     webhookEmail |-> Undefined, projection |-> "none",
     uploads |-> 0, probes |-> 0, parses |-> 0, notifies |-> 0, saves |-> 0,
     len0 |-> 0, response |-> NoResponse,
     \* what the outside world answered to this request, for the record
     s3log |-> <<>>, probe |-> "none", parse |-> "none", dblog |-> <<>>,
     http |-> "none", saved |-> FALSE, wire |-> <<>>]

Respond(r, status, webhookSent, id) ==
    [r EXCEPT !.pc = "done",
              !.response = [status |-> status, webhookSent |-> webhookSent,
                            applicationId |-> id]]

\* request.formData() and the required-field test.
SubmitReceive(form) ==
    /\ sub.pc = "idle"
    /\ LET r == [SubIdle EXCEPT !.form = form, !.len0 = Len(store)] IN
       sub' = IF MissingRequired(form)
              THEN Respond(r, 400, FALSE, Undefined)
              ELSE [r EXCEPT !.pc = "upload"]
    /\ UNCHANGED <<now, calls, rw, store, rs, hist, lst, pyCall>>

\* Mutant: every upload error is taken for a parser error.
ParserUnavailable_any(message) == TRUE

\* uploadError.message.includes("Python service")
ParserUnavailable(message) == Includes(message, "Python service")

\* uploadFile(fileBlob, fileName, true) and the catch that classifies its error.
SubmitUpload(s3, probe, parse) ==
    /\ sub.pc = "upload"
    /\ LET u == uploadFile(sub.form.cv.name, TRUE, now, s3, probe, parse)
           r == [sub EXCEPT !.uploads = @ + 1, !.probes = @ + u.probes,
                            !.parses = @ + u.parses,
                            !.s3log = Append(@, s3),
                            !.wire = @ \o AwaitEach(UploadCalls(u)),
                            !.probe = IF u.probes > 0 THEN probe ELSE @,
                            !.parse = IF u.parses = 0 THEN @
                                      ELSE IF parse.ok THEN "ok" ELSE "fail"]
       IN sub' = IF ~u.threw
                 THEN [r EXCEPT !.pc = "connect", !.fileUrl = u.fileUrl,
                                !.pythonResponse = u.pythonResponse]
                 ELSE IF ParserUnavailable(u.message)
                 THEN [r EXCEPT !.pc = "reupload"]
                 ELSE Respond(r, 500, FALSE, Undefined)
    /\ UNCHANGED <<now, calls, rw, store, rs, hist, lst, pyCall>>

\* Mutant: the retry asks for enrichment again and keeps what the parser said.
SubmitUploadRetry_withParser(s3) ==
    /\ sub.pc = "reupload"
    /\ LET parse == [ok |-> TRUE, body |-> PyResponse(Raw("object", FullResume))]
           u == uploadFile(sub.form.cv.name, TRUE, now, s3, "up", parse)
           r == [sub EXCEPT !.uploads = @ + 1, !.probes = @ + u.probes,
                            !.parses = @ + u.parses,
                            !.s3log = Append(@, s3),
                            !.wire = @ \o AwaitEach(UploadCalls(u))]
       IN sub' = IF ~u.threw
                 THEN [r EXCEPT !.pc = "connect", !.fileUrl = u.fileUrl,
                                !.pythonResponse = u.pythonResponse]
                 ELSE Respond(r, 500, FALSE, Undefined)
    /\ UNCHANGED <<now, calls, rw, store, rs, hist, lst, pyCall>>

\* uploadFile(fileBlob, fileName, false) inside the catch; its own failure
\* leaves the catch and ends the request.
SubmitUploadRetry(s3) ==
    /\ sub.pc = "reupload"
    /\ LET u == uploadFile(sub.form.cv.name, FALSE, now, s3, "down", ParseFailed)
           r == [sub EXCEPT !.uploads = @ + 1, !.probes = @ + u.probes,
                            !.parses = @ + u.parses,
                            !.s3log = Append(@, s3),
                            !.wire = @ \o AwaitEach(UploadCalls(u))]
       IN sub' = IF ~u.threw
                 THEN [r EXCEPT !.pc = "connect", !.fileUrl = u.fileUrl]
                 ELSE Respond(r, 500, FALSE, Undefined)
    /\ UNCHANGED <<now, calls, rw, store, rs, hist, lst, pyCall>>

\* Mutant: the record is saved first, whatever the parser returned.
SubmitConnect_saveFirst(db) ==
    /\ sub.pc = "connect"
    /\ LET r == [sub EXCEPT !.dblog = Append(@, db),
                            !.wire = @ \o AwaitEach(<<"connect">>)] IN
       sub' = IF db # "ok"
              THEN Respond(r, 500, FALSE, Undefined)
              ELSE [r EXCEPT !.pc = "save"]
    /\ UNCHANGED <<now, calls, rw, store, rs, hist, lst, pyCall>>

\* await dbConnect(), then the test that decides whether there is parsed data.
SubmitConnect(db) ==
    /\ sub.pc = "connect"
    /\ LET r == [sub EXCEPT !.dblog = Append(@, db),
                            !.wire = @ \o AwaitEach(<<"connect">>)] IN
       sub' = IF db # "ok"
              THEN Respond(r, 500, FALSE, Undefined)
              ELSE IF ~r.pythonResponse.nil
                      /\ RawTruthy(r.pythonResponse.parsed_data)
              THEN [r EXCEPT !.pc = "notify"]
              ELSE [r EXCEPT !.pc = "save"]
    /\ UNCHANGED <<now, calls, rw, store, rs, hist, lst, pyCall>>

\* Mutant: the catch block stores the raw payload and notifies nobody.
NotifyRaw_silent(r, t, http) ==
    [r EXCEPT !.parsedResume = RawOnlyResume(r.pythonResponse.parsed_data),
              !.projection = "raw"]

\* The raw-payload fallback of the catch (parseError) block.
NotifyRaw(r, t, http) ==
    LET raw == r.pythonResponse.parsed_data
        data == MkData(NoFields("object"), Undefined, raw)
        n == sendWebhookNotification(data, r.form.email, "testing", t, http)
    IN [r EXCEPT !.parsedResume = RawOnlyResume(raw),
                 !.projection = "raw",
                 !.webhookData = data, !.webhookEmail = r.form.email,
                 !.notifies = @ + 1,
                 !.webhookResult = IF n.threw THEN r.webhookResult ELSE n.result]

\* Mutant: the raw-payload fallback is sent after the structured notification
\* as well.
ProjectAndNotify_fallbackToo(r, t, http) ==
    LET raw == r.pythonResponse.parsed_data
        parsed == IF raw.kind = "text" THEN JSONParse(raw)
                  ELSE [threw |-> FALSE, value |-> raw.pv]
        pv == parsed.value
        to == Or(pv.email, r.form.email)
        data == SpreadWithUrl(pv, r.fileUrl)
    IN IF parsed.threw \/ pv.jt = "null"
       THEN NotifyRaw(r, t, http)
       ELSE NotifyRaw([r EXCEPT !.webhookData = data, !.webhookEmail = to,
                                !.notifies = @ + 1], t, http)

\* The try block: parse, project into parsedResume, notify; any throw in it
\* lands in the raw-payload fallback.
ProjectAndNotify(r, t, http) ==
    LET raw == r.pythonResponse.parsed_data
        parsed == IF raw.kind = "text" THEN JSONParse(raw)
                  ELSE [threw |-> FALSE, value |-> raw.pv]
        pv == parsed.value
        to == Or(pv.email, r.form.email)
        data == SpreadWithUrl(pv, r.fileUrl)
        n == sendWebhookNotification(data, to, "testing", t, http)
        structured ==
            [r EXCEPT !.parsedResume = ParsedResume(pv, to, raw),
                      !.projection = "structured",
                      !.webhookData = data, !.webhookEmail = to,
                      !.notifies = @ + 1,
                      !.webhookResult = n.result]
    IN IF parsed.threw \/ pv.jt = "null"
       THEN NotifyRaw(r, t, http)
       ELSE IF n.threw
       THEN NotifyRaw([r EXCEPT !.notifies = @ + 1], t, http)
       ELSE structured

SubmitNotify(http) ==
    /\ sub.pc = "notify"
    /\ LET r == ProjectAndNotify(sub, now, http)
           posts == [i \in 1..(r.notifies - sub.notifies) |-> "webhook"]
       IN sub' = [r EXCEPT !.pc = "save", !.http = http,
                           !.wire = @ \o AwaitEach(posts)]
    /\ UNCHANGED <<now, calls, rw, store, rs, hist, lst, pyCall>>

\* The document a request is about to save.
Draft(r, t) ==
    NewApplication("id" \o ToString(Len(store) + 1), r.form, r.fileUrl,
                   r.pythonResponse, r.parsedResume, r.webhookResult, t)

\* Mutant: a rejected save leaves the document in the store all the same.
SubmitSave_partialWrite(db) ==
    /\ sub.pc = "save"
    /\ LET s == Save(Draft(sub, now), now, db)
           r == [sub EXCEPT !.saves = @ + 1, !.dblog = Append(@, db),
                            !.saved = ~s.threw,
                            !.wire = @ \o AwaitEach(<<"save">>)]
       IN /\ sub' = IF s.threw THEN Respond(r, 500, FALSE, Undefined)
                    ELSE Respond(r, 201, sub.webhookResult.success, s.doc.id)
          /\ store' = Append(store, s.doc)
          /\ hist' = Append(hist, sub.webhookResult)
    /\ UNCHANGED <<now, calls, rw, rs, lst, pyCall>>

\* new Application(...), application.save() and the 201 response; a rejected
\* save ends in the 500 response of the catch.
SubmitSave(db) ==
    /\ sub.pc = "save"
    /\ LET s == Save(Draft(sub, now), now, db)
           r == [sub EXCEPT !.saves = @ + 1, !.dblog = Append(@, db),
                            !.saved = ~s.threw,
                            !.wire = @ \o AwaitEach(<<"save">>)]
       IN IF s.threw
          THEN /\ sub' = Respond(r, 500, FALSE, Undefined)
               /\ UNCHANGED <<store, hist>>
          ELSE /\ sub' = Respond(r, 201, sub.webhookResult.success, s.doc.id)
               /\ store' = Append(store, s.doc)
               /\ hist' = Append(hist, sub.webhookResult)
    /\ UNCHANGED <<now, calls, rw, rs, lst, pyCall>>

\* The response has been sent; the next request can arrive.
SubmitDone ==
    /\ sub.pc = "done"
    /\ sub' = SubIdle
    /\ UNCHANGED <<now, calls, rw, store, rs, hist, lst, pyCall>>

---------------------------------------------------------------------------
(* POST /api/applications/resend-webhook/[id] *)

\* The clients that can have a resend request in flight at the same time.
Resenders == {1, 2}

\* The ids a client can ask for: those of the records the store can hold and
\* one that no record ever gets.
ResendIds == {"id" \o ToString(i) : i \in 1..(MaxRecords + 1)}

NoData == MkData(NoFields("undefined"), Undefined, NoRaw)

\* The JSON body of a resend response: keys lists the keys it has.
NoResendBody ==
    [keys |-> {}, success |-> FALSE, message |-> Undefined, error |-> Undefined,
     webhookResult |-> NullResult]

\* Mutant: the top-level success flag repeats the delivery outcome.
ResendBody_mirrorsDelivery(status, webhookResult) ==
    IF status = 200
    THEN [keys |-> {"success", "message", "webhookResult"},
          success |-> webhookResult.success,
          message |-> "Webhook resent successfully", error |-> Undefined,
          webhookResult |-> webhookResult]
    ELSE [NoResendBody EXCEPT
             !.keys = {"error"},
             !.error = IF status = 404 THEN "Application not found"
                       ELSE "Error resending webhook"]

\* { success: true, message, webhookResult } with 200; { error } with 404, 500.
ResendBody(status, webhookResult) ==
    IF status = 200
    THEN [keys |-> {"success", "message", "webhookResult"},
          success |-> TRUE,
          message |-> "Webhook resent successfully", error |-> Undefined,
          webhookResult |-> webhookResult]
    ELSE [NoResendBody EXCEPT
             !.keys = {"error"},
             !.error = IF status = 404 THEN "Application not found"
                       ELSE "Error resending webhook"]

ResendIdle ==
    [pc |-> "idle", id |-> Undefined, idx |-> 0, doc |-> <<>>,
     branch |-> "none", data |-> NoData, email |-> Undefined,
     result |-> NullResult, notifies |-> 0, saves |-> 0,
     status |-> 0, http |-> "none", dblog |-> <<>>, body |-> NoResendBody,
     wire |-> <<>>]

\* NextResponse.json(body, { status })
ResendRespond(r, status) ==
    [r EXCEPT !.pc = "done", !.status = status, !.body = ResendBody(status, r.result)]

\* Mutant: the lookup returns the first record, whatever id was asked for.
FindById_anyRecord(id) == IF Len(store) > 0 THEN 1 ELSE 0

\* Application.findById(id): the position of the record, 0 when there is none.
FindById(id) ==
    IF \E i \in 1..Len(store) : store[i].id = id
    THEN CHOOSE i \in 1..Len(store) : store[i].id = id
    ELSE 0

\* data.cvUrl = application.cv.url on the rawData object itself: the loaded
\* document's rawData carries the new key from then on.
WithCvUrl(raw, cvUrl) == [kind |-> raw.kind, pv |-> raw.pv, cvUrl |-> cvUrl]

\* The structured data of the catch block.
StructuredData(app) ==
    LET pr == app.parsedResume IN
    [jt |-> "object",
     fullName |-> Or(pr.fullName, app.name), email |-> Or(pr.email, app.email),
     github |-> pr.github, linkedin |-> pr.linkedin,
     employment |-> pr.employment, technicalSkills |-> pr.technicalSkills,
     softSkills |-> pr.softSkills, education |-> pr.education,
     cvUrl |-> app.cv.url, rawData |-> NoRaw]

\* { fullName: application.name, email: application.email, cvUrl }
MinimalData(app) ==
    [NoData EXCEPT !.jt = "object", !.fullName = app.name,
                   !.email = app.email, !.cvUrl = app.cv.url]

\* Mutant: every record gets the three base fields, parsed resume or not.
ResendData_alwaysMinimal(app) ==
    [branch |-> "minimal", data |-> MinimalData(app), doc |-> app]

\* The choice of the data to send: rawData (parsed when it is text) with
\* cvUrl attached; the structured fields when that throws (JSON.parse rejects
\* the text, or the parsed value is null and the assignment to it throws);
\* the three base fields when there is no rawData.
ResendData(app) ==
    LET pr == app.parsedResume
        raw == pr.rawData
        parsed == JSONParse(raw)
    IN IF ~pr.nil /\ RawTruthy(raw)
       THEN IF raw.kind = "text"
            THEN IF parsed.threw \/ parsed.value.jt = "null"
                 THEN [branch |-> "structured", data |-> StructuredData(app),
                       doc |-> app]
                 ELSE [branch |-> "raw",
                       data |-> MkData(parsed.value, app.cv.url, NoRaw),
                       doc |-> app]
            ELSE [branch |-> "raw", data |-> MkData(raw.pv, app.cv.url, NoRaw),
                  doc |-> [app EXCEPT !.parsedResume.rawData =
                                          WithCvUrl(raw, app.cv.url)]]
       ELSE [branch |-> "minimal", data |-> MinimalData(app), doc |-> app]

\* const { id } = params; await dbConnect()
ResendReceive(p, id, db) ==
    /\ rs[p].pc = "idle"
    /\ LET r == [ResendIdle EXCEPT !.id = id, !.dblog = <<db>>,
                                   !.wire = AwaitEach(<<"connect">>)] IN
       rs' = [rs EXCEPT ![p] = IF db # "ok" THEN ResendRespond(r, 500)
                               ELSE [r EXCEPT !.pc = "find"]]
    /\ UNCHANGED <<now, calls, rw, store, sub, hist, lst, pyCall>>

\* await Application.findById(id), the 404 answer, and the choice of data.
ResendFind(p, db) ==
    /\ rs[p].pc = "find"
    /\ LET r == [rs[p] EXCEPT !.dblog = Append(@, db),
                              !.wire = @ \o AwaitEach(<<"find">>)]
           i == FindById(r.id)
           d == ResendData(store[i])
       IN rs' = [rs EXCEPT ![p] =
                    IF db # "ok" THEN ResendRespond(r, 500)
                    ELSE IF i = 0 THEN ResendRespond(r, 404)
                    ELSE [r EXCEPT !.pc = "notify", !.idx = i, !.doc = <<d.doc>>,
                                   !.branch = d.branch, !.data = d.data,
                                   !.email = store[i].email]]
    /\ UNCHANGED <<now, calls, rw, store, sub, hist, lst, pyCall>>

\* await sendWebhookNotification(data, email, "prod") and the two assignments
\* to the loaded document.
ResendNotify(p, http) ==
    /\ rs[p].pc = "notify"
    /\ LET q == rs[p]
           n == sendWebhookNotification(q.data, q.email, "prod", now, http)
           r == [q EXCEPT !.wire = @ \o AwaitEach(IF n.posted THEN <<"webhook">>
                                                  ELSE <<>>)]
           doc == [r.doc[1] EXCEPT !.webhookSent = n.result.success,
                                   !.webhookResponse = n.result]
       IN IF n.threw
          THEN /\ rs' = [rs EXCEPT ![p] =
                            ResendRespond([r EXCEPT !.notifies = @ + 1,
                                                    !.http = http], 500)]
               /\ hist' = hist
          ELSE /\ rs' = [rs EXCEPT ![p] =
                            [r EXCEPT !.pc = "save", !.http = http,
                                      !.notifies = @ + 1,
                                      !.result = n.result, !.doc = <<doc>>]]
               /\ hist' = [hist EXCEPT ![r.idx] = n.result]
    /\ UNCHANGED <<now, calls, rw, store, sub, lst, pyCall>>

\* Mutant: save() writes the whole loaded document over the stored one.
WriteModified_wholeDocument(current, doc) == doc

\* save() of a loaded document writes the paths that were assigned to
\* (webhookSent, webhookResponse, and updatedAt from the pre-save hook); a
\* change made inside the Mixed rawData value is not among them.
WriteModified(current, doc) ==
    [current EXCEPT !.webhookSent = doc.webhookSent,
                    !.webhookResponse = doc.webhookResponse,
                    !.updatedAt = doc.updatedAt]

\* Mutant: the stored record is updated before the save is known to succeed.
ResendSave_writeFirst(p, db) ==
    /\ rs[p].pc = "save"
    /\ LET s == Save(rs[p].doc[1], now, db)
           r == [rs[p] EXCEPT !.saves = @ + 1, !.dblog = Append(@, db),
                              !.wire = @ \o AwaitEach(<<"save">>)]
       IN /\ rs' = [rs EXCEPT ![p] = ResendRespond(r, IF s.threw THEN 500 ELSE 200)]
          /\ store' = [store EXCEPT ![r.idx] = WriteModified(@, PreSave(r.doc[1], now))]
    /\ UNCHANGED <<now, calls, rw, sub, hist, lst, pyCall>>

\* await application.save() and the 200 answer; a rejected save ends in the
\* 500 answer of the catch and writes nothing.
ResendSave(p, db) ==
    /\ rs[p].pc = "save"
    /\ LET s == Save(rs[p].doc[1], now, db)
           r == [rs[p] EXCEPT !.saves = @ + 1, !.dblog = Append(@, db),
                              !.wire = @ \o AwaitEach(<<"save">>)]
       IN IF s.threw
          THEN /\ rs' = [rs EXCEPT ![p] = ResendRespond(r, 500)]
               /\ store' = store
          ELSE /\ rs' = [rs EXCEPT ![p] = ResendRespond(r, 200)]
               /\ store' = [store EXCEPT ![r.idx] = WriteModified(@, s.doc)]
    /\ UNCHANGED <<now, calls, rw, sub, hist, lst, pyCall>>

\* The response has been sent; the client can ask again.
ResendDone(p) ==
    /\ rs[p].pc = "done"
    /\ rs' = [rs EXCEPT ![p] = ResendIdle]
    /\ UNCHANGED <<now, calls, rw, store, sub, hist, lst, pyCall>>

---------------------------------------------------------------------------
(* GET /api/applications *)

\* searchParams.get(name): null when the parameter is absent, its text
\* otherwise.  The text "0" is a non-empty string and so truthy.
PageParams == {Null, "0", "2"}
LimitParams == {Null, "0", "1"}
StatusParams == {Null, "pending", "hired"}

\* searchParams.get(name) || fallback
ParamOr(v, fallback) == IF v \in {Null, ""} THEN fallback ELSE v

\* parseInt(text) of the decimal texts a client sends.
ParseInt(text) ==
    CASE text = "0" -> 0 [] text = "1" -> 1 [] text = "2" -> 2
      [] text = "10" -> 10

\* Math.ceil(total / limit); the division by zero gives Infinity or NaN,
\* which JSON writes as null.
Ceil(total, limit) ==
    IF limit = 0 THEN [finite |-> FALSE, n |-> 0]
    ELSE [finite |-> TRUE, n |-> (total + limit - 1) \div limit]

NoPages == [finite |-> FALSE, n |-> 0]

ListResponse(status, data, total, page, limit, pages) ==
    [status |-> status, data |-> data, total |-> total, page |-> page,
     limit |-> limit, pages |-> pages]

ListError == ListResponse(500, <<>>, 0, 0, 0, NoPages)
NoListResponse == ListResponse(0, <<>>, 0, 0, 0, NoPages)

ListIdle ==
    [pc |-> "idle", q |-> [page |-> Null, limit |-> Null, status |-> Null],
     page |-> 0, limit |-> 0, status |-> Null, total |-> 0,
     n0 |-> 0, n1 |-> 0, dblog |-> <<>>,
     response |-> NoListResponse, prev |-> <<>>]

\* if (status) query.status = status; the records the query selects.
Matching(status) ==
    {i \in 1..Len(store) : ~Truthy(status) \/ store[i].status = status}

\* .sort({ createdAt: -1 }): the orders the store can return.  Documents
\* with equal createdAt have no defined order among themselves.
Sorted(S) ==
    {o \in [1..Cardinality(S) -> S] :
        /\ \A a, b \in 1..Cardinality(S) : a # b => o[a] # o[b]
        /\ \A a, b \in 1..Cardinality(S) :
              a < b => store[o[a]].createdAt >= store[o[b]].createdAt}

\* Mutant: the first page is skipped too.
SkipOf_pageTimesLimit(page, limit) == page * limit

\* .skip((page - 1) * limit)
SkipOf(page, limit) == (page - 1) * limit

\* .limit(limit).skip(skip) applied to an order; limit 0 means no limit.
Slice(o, skip, limit) ==
    LET left == IF Len(o) > skip THEN Len(o) - skip ELSE 0
        m == IF limit = 0 \/ limit > left THEN left ELSE limit
    IN [k \in 1..m |-> store[o[skip + k]]]

\* await dbConnect() and the reading of the query parameters.
ListReceive(page, limit, status, db) ==
    /\ lst.pc = "idle"
    /\ LET r == [ListIdle EXCEPT !.q = [page |-> page, limit |-> limit,
                                         status |-> status],
                                  !.limit = ParseInt(ParamOr(limit, "10")),
                                  !.page = ParseInt(ParamOr(page, "1")),
                                  !.status = status,
                                  !.dblog = <<db>>]
       IN lst' = IF db # "ok"
                 THEN [r EXCEPT !.pc = "done", !.response = ListError]
                 ELSE [r EXCEPT !.pc = "count"]
    /\ UNCHANGED <<now, calls, rw, store, sub, rs, hist, pyCall>>

\* await Application.countDocuments(query)
ListCount(db) ==
    /\ lst.pc = "count"
    /\ LET r == [lst EXCEPT !.dblog = Append(@, db)] IN
       lst' = IF db # "ok"
              THEN [r EXCEPT !.pc = "done", !.response = ListError]
              ELSE [r EXCEPT !.pc = "find", !.n0 = Len(store),
                             !.total = Cardinality(Matching(r.status))]
    /\ UNCHANGED <<now, calls, rw, store, sub, rs, hist, pyCall>>

\* await Application.find(query).sort(...).limit(limit).skip(skip) and the
\* 200 answer.  The store rejects a negative skip, as it rejects any query
\* when it is down; both end in the 500 answer of the catch.
ListFind(db) ==
    /\ lst.pc = "find"
    /\ LET r == [lst EXCEPT !.dblog = Append(@, db), !.n1 = Len(store)]
           skip == SkipOf(r.page, r.limit)
       IN IF db # "ok" \/ skip < 0
          THEN lst' = [r EXCEPT !.pc = "done", !.response = ListError]
          ELSE \E o \in Sorted(Matching(r.status)) :
                 lst' = [r EXCEPT !.pc = "done",
                                  !.response =
                                      ListResponse(200, Slice(o, skip, r.limit),
                                                   r.total, r.page, r.limit,
                                                   Ceil(r.total, r.limit))]
    /\ UNCHANGED <<now, calls, rw, store, sub, rs, hist, pyCall>>

\* The response has been sent; the next request can arrive.
ListDone ==
    /\ lst.pc = "done"
    /\ lst' = ListIdle
    /\ UNCHANGED <<now, calls, rw, store, sub, rs, hist, pyCall>>

\* The client sends the same request again; the answer it has is kept for
\* comparison.
ListRepeat(db) ==
    /\ lst.pc = "done" /\ lst.prev = <<>>
    /\ LET r == [lst EXCEPT !.prev = <<[response |-> lst.response,
                                         n0 |-> lst.n0, n1 |-> lst.n1]>>,
                             !.response = NoListResponse, !.total = 0,
                             !.n0 = 0, !.n1 = 0, !.dblog = <<db>>]
       IN lst' = IF db # "ok"
                 THEN [r EXCEPT !.pc = "done", !.response = ListError]
                 ELSE [r EXCEPT !.pc = "count"]
    /\ UNCHANGED <<now, calls, rw, store, sub, rs, hist, pyCall>>

---------------------------------------------------------------------------
(* Specifications *)

Init ==
    /\ now = 0
    /\ calls = <<>>
    /\ rw = RetryIdle
    /\ store = <<>>
    /\ sub = SubIdle
    /\ rs = [p \in Resenders |-> ResendIdle]
    /\ hist = <<>>
    /\ lst = ListIdle
    /\ pyCall = PyIdle

\* The store of a run holds at most cap records: a request that would add
\* one more is not started.
Room(form, cap) == MissingRequired(form) \/ Len(store) < cap

Submit ==
    \/ \E form \in Forms : Room(form, MaxRecords) /\ SubmitReceive(form)
    \/ \E s3 \in S3Outcomes, probe \in ProbeOutcomes, parse \in ParseOutcomes :
          SubmitUpload(s3, probe, parse)
    \/ \E s3 \in S3Outcomes : SubmitUploadRetry(s3)
    \/ \E db \in DbOutcomes : SubmitConnect(db)
    \/ \E http \in HttpOutcomes : SubmitNotify(http)
    \/ \E db \in DbOutcomes : SubmitSave(db)
    \/ SubmitDone

Next == Submit \/ Tick

Spec == Init /\ [][Next]_vars

NextNotify ==
    \/ Tick
    \/ \E data \in NotifyData, email \in Emails, environment \in Environments,
          http \in HttpOutcomes : NotifyCall(data, email, environment, http)

SpecNotify == Init /\ [][NextNotify]_vars

\* The submission that feeds the store while resends are studied: the
\* standard form with an upper-case address, which the schema lower-cases.
UpperCaseForm == [StandardForm EXCEPT !.email = "A@B.com"]

\* One client resending, next to the submissions that create the records.
NextResend ==
    \/ Room(UpperCaseForm, MaxRecords) /\ SubmitReceive(UpperCaseForm)
    \/ \E parse \in ParseOutcomes : SubmitUpload("ok", "up", parse)
    \/ SubmitConnect("ok")
    \/ \E http \in HttpOutcomes : SubmitNotify(http)
    \/ SubmitSave("ok")
    \/ SubmitDone
    \/ \E id \in ResendIds, db \in DbOutcomes : ResendReceive(1, id, db)
    \/ \E db \in DbOutcomes : ResendFind(1, db)
    \/ \E http \in HttpOutcomes : ResendNotify(1, http)
    \/ \E db \in DbOutcomes : ResendSave(1, db)
    \/ ResendDone(1)

SpecResend == Init /\ [][NextResend]_vars

\* The outcomes of a POST that matter to a race: answered 2xx, or not sent.
RaceOutcomes == {"2xx", "network"}
RaceParses == {ParseFailed, [ok |-> TRUE, body |-> PyResponse(Raw("object", FullResume))]}

\* Two clients resending at the same time, next to the submissions, with a
\* store that answers every call.
NextRace ==
    \/ Room(StandardForm, MaxRecords) /\ SubmitReceive(StandardForm)
    \/ \E parse \in RaceParses : SubmitUpload("ok", "up", parse)
    \/ SubmitConnect("ok")
    \/ \E http \in RaceOutcomes : SubmitNotify(http)
    \/ SubmitSave("ok")
    \/ SubmitDone
    \/ \E p \in Resenders, id \in ResendIds : ResendReceive(p, id, "ok")
    \/ \E p \in Resenders : ResendFind(p, "ok")
    \/ \E p \in Resenders, http \in RaceOutcomes : ResendNotify(p, http)
    \/ \E p \in Resenders : ResendSave(p, "ok")
    \/ \E p \in Resenders : ResendDone(p)

SpecRace == Init /\ [][NextRace]_vars

\* Listing requests next to the submissions that fill the store, none of
\* which reaches the parser.
ListFeed ==
    \/ Room(StandardForm, MaxListed) /\ SubmitReceive(StandardForm)
    \/ SubmitUpload("ok", "down", ParseFailed)
    \/ SubmitConnect("ok")
    \/ SubmitSave("ok")
    \/ SubmitDone
    \/ Tick

NextList ==
    \/ ListFeed
    \/ \E page \in PageParams, limit \in LimitParams, status \in StatusParams,
          db \in DbOutcomes : ListReceive(page, limit, status, db)
    \/ \E db \in DbOutcomes : ListCount(db)
    \/ \E db \in DbOutcomes : ListFind(db)
    \/ ListDone

SpecList == Init /\ [][NextList]_vars

\* The same, with every listing request sent twice.
NextListTwice ==
    \/ ListFeed
    \/ \E page \in PageParams, limit \in LimitParams, status \in StatusParams :
          ListReceive(page, limit, status, "ok")
    \/ ListCount("ok")
    \/ ListFind("ok")
    \/ ListRepeat("ok")
    \/ ListDone

SpecListTwice == Init /\ [][NextListTwice]_vars

RetryCounts == -1..MaxRetries

NextRetry ==
    \/ \E data \in NotifyData, email \in Emails, retries \in RetryCounts,
          environment \in Environments : RetryStart(data, email, retries, environment)
    \/ \E http \in HttpOutcomes : RetryAttempt(http)
    \/ RetryDelay
    \/ RetryExhausted

SpecRetry == Init /\ [][NextRetry]_vars

\* The same runs under the event loop's scheduling: a settled notifier call,
\* an expired timer and the loop test are always resumed.
SpecRetryFair ==
    /\ SpecRetry
    /\ WF_vars(\E http \in HttpOutcomes : RetryAttempt(http))
    /\ WF_vars(RetryDelay)
    /\ WF_vars(RetryExhausted)

\* The parser gateway alone: calls with every probe and parse outcome.
NextParser ==
    \/ \E fileUrl \in PyUrls : PyStart(fileUrl)
    \/ \E probe \in ProbeOutcomes : PyProbe(probe)
    \/ \E parse \in ParseOutcomes : PyParse(parse)
    \/ PyDone
    \/ Tick

SpecParser == Init /\ [][NextParser]_vars

---------------------------------------------------------------------------
(* Properties of the submission pipeline *)

Range(seq) == {seq[i] : i \in 1..Len(seq)}

\* The newest record of the store, for a request that has just saved.
Newest == store[Len(store)]

\* A text field that was not sent or was sent empty.
Blank(v) == v = Null \/ v = ""

\* A field is missing, or a text field is empty.
FieldAbsent(form) ==
    Blank(form.name) \/ Blank(form.email) \/ Blank(form.phone) \/ form.cv.nil

\* Nothing was called and nothing was stored by the request in `r`.
NoSideEffects(r) ==
    /\ r.uploads = 0 /\ r.probes = 0 /\ r.parses = 0
    /\ r.notifies = 0 /\ r.saves = 0

\* C1 (as amended): a submission in which name, email or phone is missing or
\* empty, or the cv part is missing, is answered 400 in the step that receives
\* it, with no upload, no parser call, no notification and the store left
\* exactly as it was.
C1_MissingFieldRejected ==
    [][(sub.pc = "idle" /\ sub'.pc # "idle" /\ FieldAbsent(sub'.form))
          => /\ sub'.pc = "done"
             /\ sub'.response.status = 400
             /\ NoSideEffects(sub')
             /\ store' = store]_vars

\* C1 (original): the same also for a cv part that is an empty file.
C1_Original ==
    (sub.pc = "done" /\ (FieldAbsent(sub.form) \/ sub.form.cv.size = 0))
        => (sub.response.status = 400 /\ NoSideEffects(sub)
            /\ Len(store) = sub.len0)

C1_Witness ==
    /\ sub.pc = "done" /\ sub.form.phone = "" /\ ~Blank(sub.form.name)
    /\ sub.response.status = 400
    /\ Len(store) = 1

\* C2: when all four fields are present and an upload is rejected with a
\* message that does not name the Python service, the request ends 500, with
\* no record added and no notification attempted.
C2_UploadFailureIsFatal ==
    (sub.pc = "done" /\ ~FieldAbsent(sub.form) /\ "denied" \in Range(sub.s3log))
        => /\ sub.response.status = 500
           /\ Len(store) = sub.len0
           /\ sub.saves = 0
           /\ sub.notifies = 0

C2_Witness ==
    /\ sub.pc = "done" /\ sub.s3log = <<"denied">>
    /\ sub.response.status = 500 /\ sub.uploads = 1

\* The first upload went through and the parser gave nothing: the probe
\* failed, or the parse request failed.
ParserGaveNothing(r) ==
    /\ Len(r.s3log) >= 1 /\ r.s3log[1] = "ok"
    /\ r.probe = "down" \/ r.parse = "fail"

DegradedOutcome(r) ==
    /\ r.response.status = 201
    /\ r.response.webhookSent = FALSE
    /\ Len(store) = r.len0 + 1
    /\ Newest.cv.pythonAnalysis.nil
    /\ Newest.parsedResume.nil
    /\ Newest.webhookSent = FALSE
    /\ r.notifies = 0

\* C3 (as amended): when all four fields are present, the upload succeeds,
\* the parser is unavailable or its parse call fails, and the store
\* connection and the save succeed, exactly one record is added and the
\* response is 201 with webhookSent=false; the record has no pythonAnalysis,
\* no parsedResume and webhookSent=false, and no notification was attempted.
\* In every such request, saved or not, no notification is attempted.
C3_DegradesWithoutParser ==
    (sub.pc = "done" /\ ~FieldAbsent(sub.form) /\ ParserGaveNothing(sub))
        => /\ sub.notifies = 0
           /\ sub.saved => DegradedOutcome(sub)
           /\ ~sub.saved => (sub.response.status = 500 /\ Len(store) = sub.len0)

\* C3 (original): the record is added and the response is 201 whenever the
\* upload succeeded and the parser gave nothing.
C3_Original ==
    (sub.pc = "done" /\ ~FieldAbsent(sub.form) /\ ParserGaveNothing(sub))
        => DegradedOutcome(sub)

C3_Witness ==
    /\ sub.pc = "done" /\ sub.probe = "down" /\ sub.saved
    /\ sub.response.status = 201 /\ Newest.cv.pythonAnalysis.nil

\* The parser answered with JSON text that cannot be projected: text that
\* does not parse, or text that parses to null.
ProjectionFails(r) ==
    /\ ~r.pythonResponse.nil
    /\ r.pythonResponse.parsed_data.kind = "text"
    /\ r.pythonResponse.parsed_data.pv.jt \in {"invalid", "null"}

\* One notification was attempted, with { rawData: parsed_data } as its data.
NotifiedWithRaw(r) ==
    /\ r.notifies = 1
    /\ r.webhookData.rawData = r.pythonResponse.parsed_data
    /\ r.webhookData.fullName = Undefined /\ r.webhookData.cvUrl = Undefined
    /\ r.webhookEmail = r.form.email

RawRecordCreated(r) ==
    /\ r.response.status = 201
    /\ Len(store) = r.len0 + 1
    /\ ~Newest.parsedResume.nil
    /\ Newest.parsedResume.rawData = r.pythonResponse.parsed_data
    /\ ~Newest.webhookResponse.nil

\* C4 (as amended): when the parsed data fails structural projection, then,
\* once the store connection has succeeded, one notification is attempted
\* with the raw payload; and if the save succeeds too, the record is created
\* (201) with parsedResume.rawData equal to the raw parsed_data.  When the
\* connection or the save fails the request ends 500 with no record.
C4_RawFallback ==
    (sub.pc = "done" /\ ~FieldAbsent(sub.form) /\ ProjectionFails(sub))
        => /\ (Len(sub.dblog) >= 1 /\ sub.dblog[1] = "ok") => NotifiedWithRaw(sub)
           /\ (Len(sub.dblog) >= 1 /\ sub.dblog[1] # "ok") => sub.notifies = 0
           /\ sub.saved => RawRecordCreated(sub)
           /\ ~sub.saved => (sub.response.status = 500 /\ Len(store) = sub.len0)

\* C4 (original): the notification is attempted and the record is created
\* whenever the projection fails.
C4_Original ==
    (sub.pc = "done" /\ ~FieldAbsent(sub.form) /\ ProjectionFails(sub))
        => (NotifiedWithRaw(sub) /\ RawRecordCreated(sub))

C4_Witness ==
    /\ sub.pc = "done" /\ ProjectionFails(sub) /\ sub.saved
    /\ sub.pythonResponse.parsed_data.pv.jt = "invalid"
    /\ sub.projection = "raw" /\ sub.http = "non2xx"
    /\ sub.response.status = 201

\* The success flag of the request's notifier call; false when none was made.
NotifierSucceeded(r) == r.notifies > 0 /\ r.http = "2xx"

\* C5: when upload and save succeed the record is created and the response
\* is 201 whatever the notifier returned; the stored webhookSent, the stored
\* webhookResponse.success and the response's webhookSent equal the success
\* flag of the notifier call, and without a call webhookSent is false and no
\* webhookResponse is stored.
C5_NotificationNonFatal ==
    (sub.pc = "done" /\ sub.saved)
        => /\ sub.response.status = 201
           /\ Len(store) = sub.len0 + 1
           /\ Newest.webhookSent = NotifierSucceeded(sub)
           /\ sub.response.webhookSent = NotifierSucceeded(sub)
           /\ sub.notifies > 0 =>
                 /\ ~Newest.webhookResponse.nil
                 /\ Newest.webhookResponse.success = NotifierSucceeded(sub)
           /\ sub.notifies = 0 => Newest.webhookResponse.nil

C5_Witness ==
    /\ sub.pc = "done" /\ sub.saved /\ sub.http = "network"
    /\ sub.projection = "structured"
    /\ sub.response.status = 201 /\ ~Newest.webhookSent
    /\ Newest.webhookResponse.error = "Network Error"

HasParsedData(r) == ~r.pythonResponse.nil /\ RawTruthy(r.pythonResponse.parsed_data)

\* C18 (as amended): within one submission the webhook notification is
\* attempted before the record is persisted: a notification attempt is only
\* made while the request has saved nothing, and a request whose parser
\* returned parsed data has made its attempt by the time it saves.
C18_NotifyBeforeSave ==
    [][/\ sub'.notifies > sub.notifies => sub.saves = 0 /\ sub'.saves = 0
       /\ sub'.saves > sub.saves =>
             /\ sub'.notifies = sub.notifies
             /\ HasParsedData(sub) => sub.notifies >= 1]_vars

\* C18 (original): the record is persisted before the notification is
\* attempted, so a request that has notified has already saved.
C18_Original == sub.notifies > 0 => sub.saves > 0

C18_Witness ==
    /\ sub.pc = "done" /\ sub.response.status = 201
    /\ sub.notifies = 1 /\ sub.saves = 1 /\ sub.saved
    /\ Len(store) = sub.len0 + 1
    /\ store[Len(store)].webhookResponse = sub.webhookResult

\* The first upload was rejected with the parser-unavailable message.
FirstUploadParserUnavailable(r) ==
    Len(r.s3log) >= 1 /\ r.s3log[1] = "python-named"

\* C20: when the first upload fails with the parser-unavailable error the
\* upload is retried exactly once, without enrichment; no request makes more
\* than two upload attempts; a record created on the retry path has no
\* pythonAnalysis, no parsedResume and webhookSent=false; when the retry fails
\* too the request ends with 500 and no record.
C20_UploadRetriedOnceWithoutParser ==
    /\ sub.uploads = Len(sub.s3log) /\ sub.uploads <= 2
    /\ ~FirstUploadParserUnavailable(sub) => sub.uploads <= 1
    /\ FirstUploadParserUnavailable(sub) =>
          /\ sub.uploads = (IF sub.pc = "reupload" THEN 1 ELSE 2)
          /\ sub.probes = 0 /\ sub.parses = 0 /\ sub.notifies = 0
          /\ sub.saved =>
                /\ Len(store) = sub.len0 + 1
                /\ Newest.cv.pythonAnalysis.nil
                /\ Newest.parsedResume.nil
                /\ Newest.webhookSent = FALSE
          /\ (sub.uploads = 2 /\ sub.s3log[2] # "ok") =>
                /\ sub.pc = "done" /\ sub.response.status = 500
                /\ sub.saves = 0 /\ Len(store) = sub.len0

C20_Witness ==
    /\ sub.pc = "done" /\ sub.s3log = <<"python-named", "ok">>
    /\ sub.uploads = 2 /\ sub.response.status = 201 /\ sub.saved
    /\ Newest.cv.pythonAnalysis.nil /\ Newest.parsedResume.nil
    /\ ~Newest.webhookSent

---------------------------------------------------------------------------
(* Properties of the webhook notifier *)

Call(i) == calls[i]
CallIds == 1..Len(calls)

\* C7: sendWebhookNotification never throws; it returns a result object whose
\* success is true exactly when the POST was made and answered 2xx, and whose
\* error carries a message otherwise.
C7_NotifierNeverThrows ==
    \A i \in CallIds :
        /\ ~Call(i).threw
        /\ ~Call(i).result.nil
        /\ Call(i).result.success <=> (Call(i).posted /\ Call(i).http = "2xx")
        /\ ~Call(i).result.success => Call(i).result.error \notin {Undefined, Null, ""}

C7_Witness ==
    /\ Len(calls) = 2
    /\ Call(1).data.jt = "null" /\ ~Call(1).posted /\ ~Call(1).result.success
    /\ Call(2).data.fullName = Undefined /\ Call(2).data.cvUrl = Undefined
    /\ Call(2).http = "timeout" /\ ~Call(2).result.success

HasEmploymentKey(c) == "work_experience" \in DOMAIN c.payload.cv_data

\* C8 (as amended): the payload has the work_experience key if and only if
\* data.employment is truthy, that is present and not null, "", 0 or false
\* (an empty list counts); the key then holds data.employment.
C8_EmploymentKeyIffTruthy ==
    \A i \in CallIds :
        Call(i).posted =>
            /\ HasEmploymentKey(Call(i)) <=>
                  Call(i).data.employment \notin {Undefined, Null, "", "0", "false"}
            /\ HasEmploymentKey(Call(i)) =>
                  Call(i).payload.cv_data.work_experience = Call(i).data.employment

\* C8 (original): the key is there if and only if data.employment is present.
C8_Original ==
    \A i \in CallIds :
        Call(i).posted =>
            (HasEmploymentKey(Call(i)) <=> Call(i).data.employment # Undefined)

C8_Witness ==
    /\ Len(calls) = 2
    /\ Call(1).posted /\ Call(1).data.employment = Null
    /\ ~HasEmploymentKey(Call(1))
    /\ Call(2).posted /\ Call(2).data.employment = "[]"
    /\ HasEmploymentKey(Call(2))

SameInputs(c, d) ==
    c.data = d.data /\ c.email = d.email /\ c.environment = d.environment

Unstamped(payload) == [payload EXCEPT !.metadata.processed_timestamp = "-"]

\* C9 (as amended): two calls with identical (data, email, environment) build
\* payloads that are identical in every field except
\* metadata.processed_timestamp, which is the time of each call.
C9_PayloadPureButForTimestamp ==
    \A i, j \in CallIds :
        (Call(i).posted /\ Call(j).posted /\ SameInputs(Call(i), Call(j)))
            => /\ Unstamped(Call(i).payload) = Unstamped(Call(j).payload)
               /\ Call(i).payload.metadata.processed_timestamp = ToISOString(Call(i).at)

\* C9 (original): the two payloads are identical in every field.
C9_Original ==
    \A i, j \in CallIds :
        (Call(i).posted /\ Call(j).posted /\ SameInputs(Call(i), Call(j)))
            => Call(i).payload = Call(j).payload

C9_Witness ==
    /\ Len(calls) = 2
    /\ Call(1).posted /\ Call(2).posted /\ SameInputs(Call(1), Call(2))
    /\ Call(1).at < Call(2).at
    /\ Call(1).payload # Call(2).payload

PersonalInfo(c) == c.payload.cv_data.personal_info

\* C17 (as amended): in the payload, personal_info name, github and linkedin
\* are each the empty string when the corresponding field is absent from
\* data, while personal_info.email is then the email argument of the call;
\* metadata.applicant_name is "Unknown Candidate" when data.fullName is
\* absent, projects is always the empty list and cv_processed is always true.
C17_PayloadDefaults ==
    \A i \in CallIds :
        Call(i).posted =>
            /\ Call(i).data.fullName = Undefined =>
                  /\ PersonalInfo(Call(i)).name = ""
                  /\ Call(i).payload.metadata.applicant_name = "Unknown Candidate"
            /\ Call(i).data.github = Undefined => PersonalInfo(Call(i)).github = ""
            /\ Call(i).data.linkedin = Undefined => PersonalInfo(Call(i)).linkedin = ""
            /\ Call(i).data.email = Undefined =>
                  PersonalInfo(Call(i)).email = Call(i).email
            /\ Call(i).payload.cv_data.projects = "[]"
            /\ Call(i).payload.metadata.cv_processed = TRUE

\* C17 (original): personal_info.email, like name, github and linkedin, is
\* the empty string when data has no email.
C17_Original ==
    \A i \in CallIds :
        Call(i).posted =>
            /\ Call(i).data.fullName = Undefined => PersonalInfo(Call(i)).name = ""
            /\ Call(i).data.github = Undefined => PersonalInfo(Call(i)).github = ""
            /\ Call(i).data.linkedin = Undefined => PersonalInfo(Call(i)).linkedin = ""
            /\ Call(i).data.email = Undefined => PersonalInfo(Call(i)).email = ""

C17_Witness ==
    /\ Len(calls) = 1 /\ Call(1).posted
    /\ Call(1).data.fullName = Undefined /\ Call(1).data.email = Undefined
    /\ Call(1).data.github = Undefined /\ Call(1).data.linkedin = Undefined
    /\ PersonalInfo(Call(1)).name = "" /\ PersonalInfo(Call(1)).email = "a@b.com"
    /\ Call(1).payload.metadata.applicant_name = "Unknown Candidate"

---------------------------------------------------------------------------
(* Properties of retryWebhook *)

\* The i-th attempt of the run returned success=false.
AttemptFailed(i) == rw.data.jt = "null" \/ rw.outcomes[i] # "2xx"

LastAttemptMessage ==
    IF rw.data.jt = "null" THEN "Cannot read properties of null"
    ELSE AxiosPost(rw.outcomes[Len(rw.outcomes)]).message

\* C10: for retries = n >= 0, no attempt follows a successful one and the run
\* returns that successful result, so k failures followed by a success make
\* k+1 <= n attempts; when every attempt fails exactly n are made and the
\* result is success=false with a message naming n and the last error.
C10_RetryStopsAtFirstSuccess ==
    rw.retries >= 0 =>
        /\ rw.attempt = Len(rw.outcomes)
        /\ Len(rw.outcomes) <= rw.retries
        /\ \A i \in 1..(Len(rw.outcomes) - 1) : AttemptFailed(i)
        /\ (Len(rw.outcomes) > 0 /\ ~AttemptFailed(Len(rw.outcomes))) =>
              /\ rw.pc = "done"
              /\ rw.result.success /\ rw.result.status = "200"
        /\ (rw.pc = "done" /\ \A i \in 1..Len(rw.outcomes) : AttemptFailed(i)) =>
              /\ Len(rw.outcomes) = rw.retries
              /\ ~rw.result.nil /\ ~rw.result.success
              /\ Includes(rw.result.error,
                          "Failed after " \o ToString(rw.retries) \o " attempts")
              /\ rw.retries > 0 => Includes(rw.result.error, LastAttemptMessage)

C10_Witness ==
    /\ rw.pc = "done" /\ rw.retries = 3
    /\ rw.outcomes = <<"network", "non2xx", "2xx">>
    /\ rw.attempt = 3 /\ rw.result.success

---------------------------------------------------------------------------
(* Properties of the resend-webhook handler *)

\* The id matches no stored record.
NoSuchRecord(id) == \A i \in 1..Len(store) : store[i].id # id

\* Every call the request made to the store was answered.
StoreAnswered(r) == \A k \in 1..Len(r.dblog) : r.dblog[k] = "ok"

\* C13 (as amended): a resend for an id that matches no stored record is
\* answered 404 when the store answers the lookup and 500 when the connection
\* or the lookup fails; either way it calls no notifier and writes nothing.
C13_UnknownIdNotFound ==
    [][(rs[1].pc = "find" /\ rs'[1] # rs[1] /\ NoSuchRecord(rs[1].id)) =>
          /\ rs'[1].pc = "done"
          /\ rs'[1].status = (IF StoreAnswered(rs'[1]) THEN 404 ELSE 500)
          /\ rs'[1].notifies = 0 /\ rs'[1].saves = 0
          /\ UNCHANGED <<store, hist, calls>>]_vars

\* C13 (original): the answer to a resend for an unknown id is always 404.
C13_Original ==
    (rs[1].pc = "done" /\ NoSuchRecord(rs[1].id)) => rs[1].status = 404

C13_Witness ==
    /\ rs[1].pc = "done" /\ rs[1].status = 404
    /\ Len(store) = 1 /\ NoSuchRecord(rs[1].id)
    /\ rs[1].notifies = 0 /\ rs[1].saves = 0

\* The record a resend has loaded, as it is stored now.
Target(r) == store[r.idx]

\* rawData can be turned into an object that takes the cvUrl key: it is an
\* object, or text that parses to one.
Reconstructs(raw) ==
    raw.kind = "object" \/ (raw.kind = "text" /\ raw.pv.jt = "object")

DataFields ==
    {"fullName", "email", "github", "linkedin", "employment",
     "technicalSkills", "softSkills", "education"}

\* C14: a resend that found its record sends, by preference, the rawData
\* object (parsed when stored as text) with the stored cv URL attached; the
\* structured parsedResume fields (name and email completed from the record)
\* with the cv URL when rawData cannot be reconstructed; and exactly
\* {fullName, email, cvUrl} from the record's name, email and cv.url when the
\* record has no parsedResume, which is the only case with that payload.
C14_ResendDataPreference ==
    rs[1].idx > 0 =>
        LET r == rs[1]
            app == Target(r)
            pr == app.parsedResume
        IN /\ r.data.cvUrl = app.cv.url /\ r.email = app.email
           /\ pr.nil <=> r.branch = "minimal"
           /\ pr.nil =>
                 /\ r.data.fullName = app.name /\ r.data.email = app.email
                 /\ \A f \in DataFields \ {"fullName", "email"} : r.data[f] = Undefined
           /\ (~pr.nil /\ Reconstructs(pr.rawData)) =>
                 /\ r.branch = "raw"
                 /\ \A f \in DataFields : r.data[f] = pr.rawData.pv[f]
           /\ (~pr.nil /\ ~Reconstructs(pr.rawData)) =>
                 /\ r.branch = "structured"
                 /\ r.data.fullName = Or(pr.fullName, app.name)
                 /\ r.data.email = Or(pr.email, app.email)
                 /\ \A f \in DataFields \ {"fullName", "email"} : r.data[f] = pr[f]

\* Reached: a resend of a record whose rawData is text that does not parse,
\* sent from the structured fields.
C14_Witness ==
    /\ rs[1].pc = "save" /\ rs[1].idx > 0
    /\ ~Target(rs[1]).parsedResume.nil
    /\ Target(rs[1]).parsedResume.rawData = Raw("text", JsonInvalid)
    /\ rs[1].branch = "structured"
    /\ rs[1].data.fullName = "Ann" /\ rs[1].data.email = "a@b.com"

\* C15: a resend that found its record calls the notifier exactly once and
\* never the retrying helper; its save writes that call's outcome to
\* webhookSent and webhookResponse and the answer is 200; when a step fails
\* (the save included) the answer is 500 and the step writes nothing, so the
\* stored record is what it was before the request.
C15_ResendOnceThenPersist ==
    [][LET r == rs[1]
           q == rs'[1]
       IN q # r =>
            /\ q.notifies <= 1
            /\ r.pc = "notify" =>
                  /\ q.notifies = 1
                  /\ q.result.success <=> q.http = "2xx"
            /\ r.pc = "save" =>
                  /\ q.notifies = 1
                  /\ IF q.dblog[Len(q.dblog)] = "ok"
                     THEN /\ q.status = 200
                          /\ store' = [store EXCEPT ![r.idx] =
                                          [@ EXCEPT !.webhookSent = r.result.success,
                                                    !.webhookResponse = r.result,
                                                    !.updatedAt = now]]
                     ELSE q.status = 500
            /\ (q.status = 500 \/ r.pc # "save") => store' = store]_vars

\* Reached: the save of a resend was rejected after a successful
\* notification; the record still shows the earlier, failed attempt.
C15_Witness ==
    /\ rs[1].pc = "done" /\ rs[1].status = 500
    /\ rs[1].notifies = 1 /\ rs[1].saves = 1 /\ rs[1].result.success
    /\ ~Target(rs[1]).webhookSent
    /\ Target(rs[1]).webhookResponse # rs[1].result

\* The fields of a record that are not webhook fields (updatedAt aside).
FrameFields ==
    {"id", "name", "email", "phone", "cv", "parsedResume", "status", "notes",
     "createdAt"}

SavePending(i) == \E p \in Resenders : rs[p].pc = "save" /\ rs[p].idx = i

\* C16: whatever the interleaving of submissions and resends, each stored
\* record's webhookSent and webhookResponse are the outcome of the
\* notification attempt for that record that completed last (read at the
\* moments when no resend of the record is between its notification and its
\* save).
C16_StoredOutcomeIsLatest ==
    \A i \in 1..Len(store) :
        ~SavePending(i) =>
            /\ store[i].webhookResponse = hist[i]
            /\ store[i].webhookSent = hist[i].success

---------------------------------------------------------------------------
(* Properties of the listing *)

\* The number a client asked for, or the default when it sent none.
Asked(v, default) ==
    IF v = Null THEN default ELSE CHOOSE n \in 0..10 : ToString(n) = v

\* The records among the first n of the store that the request's status
\* filter selects (the store only grows, so these are the records that were
\* there when it held n).
MatchingAt(n) ==
    {i \in 1..n : lst.q.status = Null \/ store[i].status = lst.q.status}

Newer(rec, n) == {i \in MatchingAt(n) : store[i].createdAt > rec.createdAt}
NotOlder(rec, n) == {i \in MatchingAt(n) : store[i].createdAt >= rec.createdAt}

\* ceil(total / limit) for limit >= 1
CeilDiv(total, limit) ==
    CHOOSE k \in 0..total : k * limit >= total /\ (k - 1) * limit < total

Min(a, b) == IF a < b THEN a ELSE b
Max(a, b) == IF a > b THEN a ELSE b

\* C11 (as amended): for page >= 1 and limit >= 1 (defaults 1 and 10) and a
\* store that answers, the listing returns 200 with the records that match
\* the status filter at positions (page-1)*limit+1 .. page*limit of a
\* newest-first-by-createdAt ordering of the store as the find query sees it,
\* total equal to the number of matching records when the count query ran,
\* and pages = ceil(total/limit); when the store fails the answer is 500.
C11_ListingPage ==
    lst.pc = "done" =>
        LET page == Asked(lst.q.page, 1)
            limit == Asked(lst.q.limit, 10)
            skip == (page - 1) * limit
            r == lst.response
            d == r.data
            found == MatchingAt(lst.n1)
        IN IF ~StoreAnswered(lst) THEN r.status = 500
           ELSE (page >= 1 /\ limit >= 1) =>
                /\ r.status = 200
                /\ r.page = page /\ r.limit = limit
                /\ r.total = Cardinality(MatchingAt(lst.n0))
                /\ r.pages.finite /\ r.pages.n = CeilDiv(r.total, limit)
                /\ Len(d) = Max(0, Min(limit, Cardinality(found) - skip))
                /\ \A k \in 1..Len(d) :
                      /\ \E i \in found : d[k] = store[i]
                      /\ Cardinality(Newer(d[k], lst.n1)) <= skip + k - 1
                      /\ Cardinality(NotOlder(d[k], lst.n1)) >= skip + k
                /\ \A a, b \in 1..Len(d) :
                      a < b => d[a] # d[b] /\ d[a].createdAt >= d[b].createdAt

\* C11 (original): every listing request is answered with the page of the
\* matching records, their number as total and ceil(total/limit) as pages.
C11_Original ==
    lst.pc = "done" =>
        LET page == Asked(lst.q.page, 1)
            limit == Asked(lst.q.limit, 10)
            r == lst.response
            matching == Cardinality(MatchingAt(lst.n1))
        IN /\ r.status = 200
           /\ r.total = matching
           /\ Len(r.data) = Max(0, Min(limit, matching - (page - 1) * limit))
           /\ r.pages.finite /\ r.pages.n * limit >= r.total

\* Reached: the second page of one, of a store with an older and a newer
\* record, holds the older record.
C11_Witness ==
    /\ lst.pc = "done" /\ lst.response.status = 200
    /\ lst.q.page = "2" /\ lst.q.limit = "1"
    /\ Len(store) = 2 /\ lst.n0 = 2 /\ lst.n1 = 2
    /\ store[1].createdAt < store[2].createdAt
    /\ lst.response.data = <<store[1]>>
    /\ lst.response.total = 2 /\ lst.response.pages.n = 2

\* The request was sent twice, both times answered 200, and the store was
\* not written to from the first query of the first call to the last query
\* of the second.
AnsweredTwiceUnchanged ==
    /\ lst.pc = "done" /\ lst.prev # <<>>
    /\ lst.response.status = 200 /\ lst.prev[1].response.status = 200
    /\ lst.prev[1].n0 = lst.n1

\* C12: two listing calls with identical page, limit and status and no write
\* to the store between them return the same records in the same order and
\* the same total and page count, also when records share a creation time.
C12_ListingIdempotent ==
    AnsweredTwiceUnchanged => lst.response = lst.prev[1].response

---------------------------------------------------------------------------
(* Properties of the parser gateway *)

\* The call in flight has returned to its caller.
PyReturned == pyCall.pc = "done"

\* C21: sendUrlToPythonService never throws and issues the parse request only
\* after the health probe of the same call succeeded: one probe per call, at
\* most one parse request, none before the probe has answered "up"; a call
\* whose probe failed returns null with zero parse requests; a call whose
\* probe succeeded has issued exactly one parse request, for the url it was
\* given, and returns that response's data, or null if the request failed.
C21_ParseOnlyAfterHealthyProbe ==
    /\ ~pyCall.threw
    /\ pyCall.probes <= 1 /\ pyCall.parses <= pyCall.probes
    /\ pyCall.parses = 1 => pyCall.probe = "up" /\ pyCall.posted = pyCall.fileUrl
    /\ pyCall.pc = "probe" => pyCall.parses = 0
    /\ (PyReturned /\ pyCall.probe # "up") =>
          pyCall.probes = 1 /\ pyCall.parses = 0 /\ pyCall.value = NoPyResponse
    /\ (PyReturned /\ pyCall.probe = "up") =>
          /\ pyCall.probes = 1 /\ pyCall.parses = 1
          /\ pyCall.value = IF pyCall.parse.ok THEN pyCall.parse.body ELSE NoPyResponse

\* A second call has returned null after a failed parse request that followed
\* a successful probe.
C21_Witness ==
    /\ PyReturned /\ pyCall.n = 2
    /\ pyCall.probe = "up" /\ pyCall.parses = 1 /\ ~pyCall.parse.ok
    /\ pyCall.value = NoPyResponse

---------------------------------------------------------------------------
(* Properties of retryWebhook: pacing and termination *)

\* The run of retryWebhook has returned to its caller.
RetryReturned == rw.pc = "done"

\* C22: retryWebhook runs its attempts one after another, each failed attempt
\* followed by one full delay before the next attempt starts (an attempt
\* starts only when every earlier attempt has returned and has been followed
\* by its delay, whatever the failure), and it waits only between attempts:
\* a run that has returned after k >= 1 attempts contains k - 1 delays.
C22_DelaysOnlyBetweenAttempts ==
    /\ rw.pc = "loop" => rw.delays = rw.attempt
    /\ rw.pc = "delay" => rw.delays = rw.attempt - 1
    /\ (RetryReturned /\ rw.attempt >= 1) => rw.delays = rw.attempt - 1

\* C25: retryWebhook terminates for every retries value and every notifier
\* behaviour: a started run always returns; it never makes more than
\* max(retries, 0) notifier calls; with retries <= 0 it makes no notifier call
\* at all and returns success=false.
C25_RetryTerminates ==
    /\ [](rw.attempt <= Max(rw.retries, 0) /\ Len(rw.outcomes) = rw.attempt)
    /\ []((RetryReturned /\ rw.retries <= 0) =>
             rw.attempt = 0 /\ ~rw.result.nil /\ ~rw.result.success)
    /\ (rw.pc # "idle") ~> RetryReturned

\* A run with a negative retries value has returned failure without a call.
C25_Witness ==
    /\ RetryReturned /\ rw.retries = -1
    /\ rw.outcomes = <<>> /\ ~rw.result.success

---------------------------------------------------------------------------
(* Properties of the record status and of the requests' outbound calls *)

\* C23: every stored record's status is one of pending, reviewed, contacted,
\* rejected, hired; a record created by a submission has status pending; and
\* no step of a submission or of a resend-webhook request changes the status
\* of a record that is already stored.
C23_StatusPendingAndKept ==
    [][\A i \in 1..Len(store') :
          /\ store'[i].status \in Statuses
          /\ IF i <= Len(store)
             THEN store'[i].status = store[i].status
             ELSE store'[i].status = "pending"]_vars

\* A resend has rewritten the webhook fields of a record with a failed
\* delivery, and the record is still pending.
C23_Witness ==
    /\ rs[1].pc = "done" /\ rs[1].status = 200 /\ rs[1].saves = 1
    /\ ~rs[1].result.success /\ Target(rs[1]).webhookResponse = rs[1].result
    /\ Target(rs[1]).status = "pending"

\* The store connection of the request (dbConnect) was made and succeeded.
StoreConnected(r) == Len(r.dblog) >= 1 /\ r.dblog[1] = "ok"

\* C24 (as amended): a submission request makes at most one webhook
\* notification attempt, and a finished request has made exactly one if and
\* only if the upload succeeded, the enrichment result carries parsed data and
\* the store connection succeeded; the raw-payload fallback is the request's
\* only notification whenever it is reached (the projection failed before the
\* structured one was attempted), so the two are never both sent.
C24_AtMostOneNotification ==
    /\ sub.notifies <= 1
    /\ sub.notifies = 1 => HasParsedData(sub) /\ StoreConnected(sub)
    /\ sub.pc = "done" =>
          (sub.notifies = 1 <=> (HasParsedData(sub) /\ StoreConnected(sub)))
    /\ sub.projection = "raw" => ProjectionFails(sub) /\ NotifiedWithRaw(sub)
    /\ sub.projection = "structured" =>
          /\ ~ProjectionFails(sub)
          /\ sub.notifies = 1 /\ sub.webhookData.cvUrl = sub.fileUrl

\* C24 (original): a finished request has made exactly one notification
\* attempt if and only if the upload succeeded and the enrichment result
\* carries parsed data.
C24_Original ==
    /\ sub.notifies <= 1
    /\ sub.pc = "done" => (sub.notifies = 1 <=> HasParsedData(sub))

\* A finished request was notified once, through the raw-payload fallback,
\* after the parser returned text that parses to null.
C24_Witness ==
    /\ sub.pc = "done" /\ sub.notifies = 1 /\ sub.projection = "raw"
    /\ sub.pythonResponse.parsed_data.pv.jt = "null"
    /\ StoreConnected(sub) /\ sub.uploads = 1

\* Request r found its record and ran to the end of the try block: the
\* notifier returned and every store call, the save included, succeeded.
CompletedResend(r) ==
    /\ r.pc = "done" /\ r.idx # 0
    /\ r.notifies = 1 /\ r.saves = 1
    /\ \A k \in 1..Len(r.dblog) : r.dblog[k] = "ok"

\* C26: a resend-webhook request that finds the record and completes without
\* an exception answers 200 with top-level success=true and the fixed
\* message, whether or not the delivery succeeded; the delivery outcome is
\* carried by webhookResult alone, whose success flag is that of the notifier
\* call and equals the record's stored webhookSent when the request ends.
C26_ResendAlwaysSuccessTrue ==
    [][\A p \in Resenders :
          (rs[p].pc # "done" /\ CompletedResend(rs'[p])) =>
             LET r == rs'[p] IN
             /\ r.status = 200
             /\ r.body.keys = {"success", "message", "webhookResult"}
             /\ r.body.success
             /\ r.body.message = "Webhook resent successfully"
             /\ r.body.webhookResult = r.result
             /\ r.body.webhookResult.success = (r.http = "2xx")
             /\ store'[r.idx].webhookSent = r.body.webhookResult.success]_vars

\* A resend whose delivery failed has answered 200 with success=true, and the
\* record says the webhook was not sent.
C26_Witness ==
    /\ CompletedResend(rs[1]) /\ rs[1].status = 200
    /\ rs[1].http = "network" /\ rs[1].body.success
    /\ ~rs[1].body.webhookResult.success
    /\ ~Target(rs[1]).webhookSent

\* The number of calls in flight after the first k events of a wire log.
InFlight(w, k) ==
    Cardinality({i \in 1..k : w[i].ev = "start"})
        - Cardinality({i \in 1..k : w[i].ev = "end"})

\* At no time is more than one call of the log in flight, and a call that
\* starts is the next one to return.
OneAtATime(w) ==
    /\ \A k \in 0..Len(w) : InFlight(w, k) \in {0, 1}
    /\ \A k \in 1..Len(w) :
          w[k].ev = "end" => (k > 1 /\ w[k - 1] = [call |-> w[k].call, ev |-> "start"])

\* The number of calls of one kind a wire log has started.
Started(w, kinds) ==
    Cardinality({i \in 1..Len(w) : w[i].ev = "start" /\ w[i].call \in kinds})

=============================================================================
